---- MODULE Spec2Model ----
(***************************************************************************)
(* Model of crc_calc.py: the CRC16-MODBUS codec, the cell formula          *)
(* evaluator (parse_b_input / parse_b_formula / parse_high_low_hex), the   *)
(* bounded fixed-point cell resolver (update_all_var_values) and the       *)
(* handlers of CRC16MODBUSCalculator that change the grid.                 *)
(*                                                                         *)
(* Texts are sequences of one-character strings, so that formatting,       *)
(* parsing, upper-casing and the regular-expression substitutions are      *)
(* computed character by character as the code computes them.              *)
(***************************************************************************)
EXTENDS Integers, Sequences, FiniteSets, TLC

\* ------------------------------------------------------------------ bounds
MaxRows == 2        \* rows the operator selects: 1..MaxRows (program: 1..30)
MaxDecCols == 1     \* A columns the operator selects: 0..MaxDecCols (program: 0..4)
MaxHexCols == 1     \* B columns the operator selects: 1..MaxHexCols (program: 1..20)
MaxEdits == 2       \* cell edits in one behaviour of Spec
MaxCrcLen == 4      \* longest byte sequence given to crc16_modbus in CrcSpec

\* ------------------------------------------------------- program constants
DefaultHexCols == 6     \* self.hex_col_count = 6
max_attempts == 5       \* round cap of update_all_var_values
CrcSeed == 65535        \* crc = 0xFFFF
CrcPoly == 40961        \* 0xA001

VARIABLES
    total_rows,         \* self.total_rows
    dec_col_count,      \* self.dec_col_count
    hex_col_count,      \* self.hex_col_count
    crc_order,          \* self.crc_order: "low_first" (低位在前) or "high_first" (高位在前)
    raw_text_dict,      \* self.raw_text_dict: cell name -> raw text
    var_value_dict,     \* self.var_value_dict: cell name -> resolved value
    row_widgets,        \* self.row_widgets: the rows, in insertion order
    row_outputs,        \* row -> [crc |-> crc_input text, result |-> result_input text]
    timer_active,       \* self.calc_timer.isActive()
    has_value_change,   \* local of update_all_var_values
    current_attempt,    \* local of update_all_var_values
    pc,                 \* position inside a resolution pass / a CRC computation / an evaluation
    last_pass,          \* record of the last completed resolution pass (history)
    edits,              \* number of update_raw_text calls so far
    crc_data,           \* crc16_modbus: data
    crc_arg_order,      \* crc16_modbus: order
    crc_idx,            \* crc16_modbus: index of the byte being processed
    crc_bit,            \* crc16_modbus: inner loop counter
    crc_reg,            \* crc16_modbus: crc
    crc_ret,            \* crc16_modbus: returned list
    ev_text,            \* parse_b_input: input_text
    ev_dict,            \* parse_b_input: var_value_dict
    ev_result           \* parse_b_input: returned value

vars == <<total_rows, dec_col_count, hex_col_count, crc_order, raw_text_dict,
          var_value_dict, row_widgets, row_outputs, timer_active,
          has_value_change, current_attempt, pc, last_pass, edits,
          crc_data, crc_arg_order, crc_idx, crc_bit, crc_reg, crc_ret, ev_text, ev_dict, ev_result>>

\* ------------------------------------------------------------ characters
DigitChars == <<"0","1","2","3","4","5","6","7","8","9">>
HexChars == <<"0","1","2","3","4","5","6","7","8","9","A","B","C","D","E","F">>
LowerChars == <<"a","b","c","d","e","f","g","h","i","j","k","l","m",
                "n","o","p","q","r","s","t","u","v","w","x","y","z">>
UpperChars == <<"A","B","C","D","E","F","G","H","I","J","K","L","M",
                "N","O","P","Q","R","S","T","U","V","W","X","Y","Z">>

DigitSet == {DigitChars[i] : i \in 1..10}
LowerSet == {LowerChars[i] : i \in 1..26}
UpperSet == {UpperChars[i] : i \in 1..26}
LetterSet == LowerSet \cup UpperSet \cup {"_"}
AlnumSet == LetterSet \cup DigitSet
HexDigitSet == DigitSet \cup {"A","B","C","D","E","F","a","b","c","d","e","f"}

\* str.upper() on one character
UpperChar(c) ==
    IF c \in LowerSet
    THEN UpperChars[CHOOSE i \in 1..26 : LowerChars[i] = c]
    ELSE c

\* str.upper()
Upper(s) == [i \in 1..Len(s) |-> UpperChar(s[i])]

\* value of one hexadecimal digit, as int(c, 16) reads it
HexVal(c) == (CHOOSE i \in 1..16 : HexChars[i] = UpperChar(c)) - 1

\* str.strip(), for the blank character
RECURSIVE LStrip(_)
LStrip(s) == IF Len(s) > 0 /\ s[1] = " " THEN LStrip(Tail(s)) ELSE s
RECURSIVE RStrip(_)
RStrip(s) ==
    IF Len(s) > 0 /\ s[Len(s)] = " " THEN RStrip(SubSeq(s, 1, Len(s) - 1)) ELSE s
Strip(s) == RStrip(LStrip(s))

\* str(n) for a non-negative integer
RECURSIVE Str(_)
Str(n) ==
    IF n < 10 THEN <<DigitChars[n + 1]>>
    ELSE Str(n \div 10) \o <<DigitChars[(n % 10) + 1]>>

\* f"{n:02d}"
Fmt02d(n) == IF n < 10 THEN <<"0">> \o Str(n) ELSE Str(n)

\* f"{n:02X}" for n in 0..255
Fmt02X(n) == <<HexChars[(n \div 16) + 1], HexChars[(n % 16) + 1]>>

\* f"{n:04X}" for n in 0..65535
Fmt04X(n) == Fmt02X(n \div 256) \o Fmt02X(n % 256)

\* value of a run of digits in the given base
RECURSIVE NumVal(_, _, _)
NumVal(s, base, acc) ==
    IF Len(s) = 0 THEN acc
    ELSE NumVal(Tail(s), base, acc * base + HexVal(s[1]))

\* str.isdigit()
IsDigitText(s) == Len(s) > 0 /\ \A i \in 1..Len(s) : s[i] \in DigitSet

\* x & 0xFF and x & 0xFFFF on Python integers (two's complement, any sign)
AndFF(x) == x % 256
AndFFFF(x) == x % 65536

\* a ^ b on single bits, and on four-bit digits (bit by bit)
XorBit(a, b) == (a + b) % 2
XorNibble ==
    [a \in 0..15, b \in 0..15 |->
        XorBit(a % 2, b % 2)
        + 2 * XorBit((a \div 2) % 2, (b \div 2) % 2)
        + 4 * XorBit((a \div 4) % 2, (b \div 4) % 2)
        + 8 * XorBit(a \div 8, b \div 8)]

\* a ^ b on non-negative integers, four bits at a time
RECURSIVE Xor(_, _)
Xor(a, b) ==
    IF a = 0 THEN b
    ELSE IF b = 0 THEN a
    ELSE XorNibble[a % 16, b % 16] + 16 * Xor(a \div 16, b \div 16)

\* ------------------------------------------------- Python eval(), modelled
\* eval() is Python's expression evaluator.  The part of its grammar that the
\* model computes: integer literals (decimal, 0X hexadecimal), the binary
\* operators + - * / // **, unary + and -, the comparisons < and >,
\* parentheses, name lookup in the namespace handed to eval and calls of the
\* two functions of that namespace with one argument.  A '#' starts a comment.
\* Every error (SyntaxError, NameError, ZeroDivisionError) is the same outcome.

\* A value is the rational n/d with d > 0; f tells a float from an int.
IntV(n) == [n |-> n, d |-> 1, f |-> FALSE]

\* floor(n / d) for d # 0
FloorDiv(n, d) == IF d > 0 THEN n \div d ELSE (0 - n) \div (0 - d)

\* round() of a float: to the nearest integer, a tie to the even one
RoundHalfEven(v) ==
    LET q == FloorDiv(v.n, v.d)
        r == v.n - q * v.d
    IN  IF 2 * r < v.d THEN q
        ELSE IF 2 * r > v.d THEN q + 1
        ELSE IF q % 2 = 0 THEN q ELSE q + 1

\* round(x): an int stays, a float is rounded to an int
PyRound(v) == IF v.f THEN IntV(RoundHalfEven(v)) ELSE v

\* abs(x)
PyAbs(v) == [n |-> IF v.n < 0 THEN 0 - v.n ELSE v.n, d |-> v.d, f |-> v.f]

RECURSIVE IntPow(_, _)
IntPow(b, e) == IF e = 0 THEN 1 ELSE b * IntPow(b, e - 1)

\* the result of a binary operator, or the error outcome
BinOp(op, a, b) ==
    CASE op = "+" -> [ok |-> TRUE,
                      val |-> [n |-> a.n * b.d + b.n * a.d, d |-> a.d * b.d, f |-> a.f \/ b.f]]
      [] op = "-" -> [ok |-> TRUE,
                      val |-> [n |-> a.n * b.d - b.n * a.d, d |-> a.d * b.d, f |-> a.f \/ b.f]]
      [] op = "*" -> [ok |-> TRUE,
                      val |-> [n |-> a.n * b.n, d |-> a.d * b.d, f |-> a.f \/ b.f]]
      [] op = "/" ->
            IF b.n = 0 THEN [ok |-> FALSE, val |-> IntV(0)]
            ELSE [ok |-> TRUE,
                  val |-> IF b.n > 0
                          THEN [n |-> a.n * b.d, d |-> a.d * b.n, f |-> TRUE]
                          ELSE [n |-> 0 - a.n * b.d, d |-> 0 - a.d * b.n, f |-> TRUE]]
      [] op = "//" ->
            IF b.n = 0 THEN [ok |-> FALSE, val |-> IntV(0)]
            ELSE [ok |-> TRUE,
                  val |-> [n |-> FloorDiv(a.n * b.d, a.d * b.n), d |-> 1, f |-> a.f \/ b.f]]
      [] op = "**" ->
            IF a.f \/ b.f \/ b.n < 0 THEN [ok |-> FALSE, val |-> IntV(0)]
            ELSE [ok |-> TRUE, val |-> IntV(IntPow(a.n, b.n))]
      [] op = "<" -> [ok |-> TRUE, val |-> IntV(IF a.n * b.d < b.n * a.d THEN 1 ELSE 0)]
      [] op = ">" -> [ok |-> TRUE, val |-> IntV(IF a.n * b.d > b.n * a.d THEN 1 ELSE 0)]

\* index after the longest run of characters of S that starts at i
RECURSIVE RunEnd(_, _, _)
RunEnd(s, i, S) == IF i <= Len(s) /\ s[i] \in S THEN RunEnd(s, i + 1, S) ELSE i

Tok(k, v, t) == [k |-> k, v |-> v, s |-> t]
BadTok == Tok("bad", 0, <<>>)

\* the tokens of an expression text; a text with an invalid token ends in "bad"
RECURSIVE Tokenize(_, _)
Tokenize(s, i) ==
    IF i > Len(s) THEN <<>>
    ELSE LET c == s[i] IN
      CASE c = " " -> Tokenize(s, i + 1)
        [] c = "#" -> <<>>
        [] c \in DigitSet ->
             IF c = "0" /\ i + 2 <= Len(s) /\ s[i + 1] \in {"X", "x"} /\ s[i + 2] \in HexDigitSet
             THEN LET j == RunEnd(s, i + 2, HexDigitSet) IN
                  IF j <= Len(s) /\ s[j] \in AlnumSet THEN <<BadTok>>
                  ELSE <<Tok("num", NumVal(SubSeq(s, i + 2, j - 1), 16, 0), <<>>)>>
                       \o Tokenize(s, j)
             ELSE LET j == RunEnd(s, i, DigitSet)
                      v == NumVal(SubSeq(s, i, j - 1), 10, 0)
                  IN  IF j <= Len(s) /\ s[j] \in LetterSet THEN <<BadTok>>
                      ELSE IF c = "0" /\ v # 0 THEN <<BadTok>>
                      ELSE <<Tok("num", v, <<>>)>> \o Tokenize(s, j)
        [] c \in LetterSet ->
             LET j == RunEnd(s, i, AlnumSet) IN
             <<Tok("name", 0, SubSeq(s, i, j - 1))>> \o Tokenize(s, j)
        [] c \in {"*", "/"} ->
             IF i + 1 <= Len(s) /\ s[i + 1] = c
             THEN <<Tok(IF c = "*" THEN "**" ELSE "//", 0, <<>>)>> \o Tokenize(s, i + 2)
             ELSE <<Tok(c, 0, <<>>)>> \o Tokenize(s, i + 1)
        [] c \in {"+", "-", "<", ">", "(", ")"} ->
             <<Tok(c, 0, <<>>)>> \o Tokenize(s, i + 1)
        [] OTHER -> <<BadTok>>

\* the names eval can resolve: allowed = {'abs': abs, 'round': round}
allowed_funcs == {<<"a","b","s">>, <<"r","o","u","n","d">>}

ParseFail == [ok |-> FALSE, val |-> IntV(0), pos |-> 0]

\* Recursive descent over the tokens ts from position p, in Python's
\* precedence: comparison, + -, * / //, unary, **, atom.  Each ...Rest
\* operator continues a rule with the operand that was just parsed.
RECURSIVE ParseExpr(_, _), ExprRest(_, _), CmpTail(_, _, _, _), CmpRest(_, _, _, _, _),
          ParseArith(_, _), ArithHead(_, _), ArithTail(_, _, _), ArithRest(_, _, _, _),
          ParseTerm(_, _), TermHead(_, _), TermTail(_, _, _), TermRest(_, _, _, _),
          ParseFactor(_, _), ParsePower(_, _), PowerHead(_, _), ParseAtom(_, _)

Parsed(val, pos) == [ok |-> TRUE, val |-> val, pos |-> pos]

\* the operand b combined with the accumulated left operand
Combine(op, acc, b) ==
    IF ~b.ok THEN ParseFail
    ELSE IF ~BinOp(op, acc, b.val).ok THEN ParseFail
    ELSE Parsed(BinOp(op, acc, b.val).val, b.pos)

Negated(op, a) ==
    IF ~a.ok THEN ParseFail
    ELSE IF op = "-" THEN Parsed([n |-> 0 - a.val.n, d |-> a.val.d, f |-> a.val.f], a.pos)
    ELSE a

\* the closing parenthesis after a parsed group, fn applied to the group
Closed(ts, a, fn) ==
    IF a.ok /\ a.pos <= Len(ts) /\ ts[a.pos].k = ")"
    THEN Parsed(CASE fn = <<"a","b","s">> -> PyAbs(a.val)
                  [] fn = <<"r","o","u","n","d">> -> PyRound(a.val)
                  [] OTHER -> a.val,
                a.pos + 1)
    ELSE ParseFail

ParseExpr(ts, p) == ExprRest(ts, ParseArith(ts, p))

ExprRest(ts, a) == IF ~a.ok THEN ParseFail ELSE CmpTail(ts, a.pos, a.val, -1)

\* a < b < c is (a < b) and (b < c); res is -1 while nothing was compared
CmpTail(ts, p, left, res) ==
    IF p <= Len(ts) /\ ts[p].k \in {"<", ">"}
    THEN CmpRest(ts, ts[p].k, left, res, ParseArith(ts, p + 1))
    ELSE Parsed(IF res = -1 THEN left ELSE IntV(res), p)

CmpRest(ts, op, left, res, b) ==
    IF ~b.ok THEN ParseFail
    ELSE CmpTail(ts, b.pos, b.val, IF res = 0 THEN 0 ELSE BinOp(op, left, b.val).val.n)

ParseArith(ts, p) == ArithHead(ts, ParseTerm(ts, p))

ArithHead(ts, a) == IF ~a.ok THEN ParseFail ELSE ArithTail(ts, a.pos, a.val)

ArithTail(ts, p, acc) ==
    IF p <= Len(ts) /\ ts[p].k \in {"+", "-"}
    THEN ArithRest(ts, ts[p].k, acc, ParseTerm(ts, p + 1))
    ELSE Parsed(acc, p)

ArithRest(ts, op, acc, b) == ArithHead(ts, Combine(op, acc, b))

ParseTerm(ts, p) == TermHead(ts, ParseFactor(ts, p))

TermHead(ts, a) == IF ~a.ok THEN ParseFail ELSE TermTail(ts, a.pos, a.val)

TermTail(ts, p, acc) ==
    IF p <= Len(ts) /\ ts[p].k \in {"*", "/", "//"}
    THEN TermRest(ts, ts[p].k, acc, ParseFactor(ts, p + 1))
    ELSE Parsed(acc, p)

TermRest(ts, op, acc, b) == TermHead(ts, Combine(op, acc, b))

ParseFactor(ts, p) ==
    IF p <= Len(ts) /\ ts[p].k \in {"+", "-"}
    THEN Negated(ts[p].k, ParseFactor(ts, p + 1))
    ELSE ParsePower(ts, p)

ParsePower(ts, p) == PowerHead(ts, ParseAtom(ts, p))

PowerHead(ts, a) ==
    IF ~a.ok THEN ParseFail
    ELSE IF a.pos <= Len(ts) /\ ts[a.pos].k = "**"
    THEN Combine("**", a.val, ParseFactor(ts, a.pos + 1))
    ELSE a

ParseAtom(ts, p) ==
    IF p > Len(ts) THEN ParseFail
    ELSE CASE ts[p].k = "num" -> Parsed(IntV(ts[p].v), p + 1)
           [] ts[p].k = "(" -> Closed(ts, ParseExpr(ts, p + 1), <<>>)
           [] ts[p].k = "name" ->
                \* a name outside the namespace is a NameError; abs and round
                \* are the only values a name can have, and are only callable
                IF ts[p].s \in allowed_funcs /\ p + 1 <= Len(ts) /\ ts[p + 1].k = "("
                THEN Closed(ts, ParseExpr(ts, p + 2), ts[p].s)
                ELSE ParseFail
           [] OTHER -> ParseFail

\* the parse must use up every token
Whole(ts, r) ==
    IF r.ok /\ r.pos = Len(ts) + 1
    THEN [ok |-> TRUE, val |-> r.val]
    ELSE [ok |-> FALSE, val |-> IntV(0)]

EvalTokens(ts) ==
    IF Len(ts) = 0 \/ ts[Len(ts)].k = "bad" THEN [ok |-> FALSE, val |-> IntV(0)]
    ELSE Whole(ts, ParseExpr(ts, 1))

\* eval(text, namespace): the value, or the error outcome (ok = FALSE)
PyEval(text) == EvalTokens(Tokenize(text, 1))

\* ------------------------------------------------------------ crc16_modbus
\* crc ^= byte & 0xFF
CrcXorByte(crc, byte) == Xor(crc, AndFF(byte))

\* the shift with the polynomial in its unreflected form 0x8005
CrcShift_unreflected(crc) ==
    IF crc % 2 = 1 THEN Xor(crc \div 2, 32773) ELSE crc \div 2

\* one turn of "for _ in range(8)": the test of the low bit, shift and XOR
CrcShift(crc) ==
    IF crc % 2 = 1 THEN Xor(crc \div 2, CrcPoly) ELSE crc \div 2

RECURSIVE CrcShiftN(_, _)
CrcShiftN(crc, n) ==
    IF n = 0 THEN crc
    ELSE LET c == CrcShift(crc) IN
         \* c >= 0 always holds: the test has c computed before the next turn
         IF c >= 0 THEN CrcShiftN(c, n - 1) ELSE c

\* the loop "for byte in data"
RECURSIVE CrcLoop(_, _)
CrcLoop(data, crc) ==
    IF Len(data) = 0 THEN crc
    ELSE LET c == CrcShiftN(CrcXorByte(crc, data[1]), 8) IN
         IF c >= 0 THEN CrcLoop(Tail(data), c) ELSE c

\* the return with the high byte left unshifted
CrcReturn_noshift(crc, order) ==
    LET c == AndFFFF(crc) IN
    IF order = "little" THEN <<AndFF(c), c>> ELSE <<c, AndFF(c)>>

\* crc &= 0xFFFF and the two returned bytes in the requested order
CrcReturn(crc, order) ==
    LET c == AndFFFF(crc) IN
    IF order = "little" THEN <<AndFF(c), c \div 256>> ELSE <<c \div 256, AndFF(c)>>

crc16_modbus(data, order) == CrcReturn(CrcLoop(data, CrcSeed), order)

\* ------------------------------------------------------------- cell names
\* dict.get(key, default)
DictGet(dict, key, default) == IF key \in DOMAIN dict THEN dict[key] ELSE default

\* dict with dict[key] = value
DictSet(dict, key, value) ==
    [k \in DOMAIN dict \cup {key} |-> IF k = key THEN value ELSE dict[k]]

\* dict without the keys of a set
DictDrop(dict, keys) == [k \in DOMAIN dict \ keys |-> dict[k]]

get_var_value(var_name, dict) == AndFF(DictGet(dict, Upper(Strip(var_name)), 0))

generate_var_name(prefix, row_num, col) == <<prefix>> \o Fmt02d(row_num) \o Fmt02d(col)

\* --------------------------------------------------------------- formulas
\* re.sub(r'(?<!0X)([AB]\d{4})', var_replace, text): every A or B followed by
\* four digits and not preceded by 0X becomes str(get_var_value(name))
RECURSIVE var_replace_sub(_, _, _)
var_replace_sub(s, i, dict) ==
    IF i > Len(s) THEN <<>>
    ELSE IF /\ s[i] \in {"A", "B"}
            /\ i + 4 <= Len(s)
            /\ \A k \in 1..4 : s[i + k] \in DigitSet
            /\ ~(i >= 3 /\ s[i - 2] = "0" /\ s[i - 1] = "X")
         THEN Str(get_var_value(SubSeq(s, i, i + 4), dict)) \o var_replace_sub(s, i + 5, dict)
         ELSE <<s[i]>> \o var_replace_sub(s, i + 1, dict)

\* int(round(result)) of an eval result
IntRound(v) == IF v.f THEN RoundHalfEven(v) ELSE v.n

\* # takes the first two digits of hex_4_str, $ the last two
HexPart(symbol, hex_4_str) ==
    IF symbol = "#"
    THEN Str(NumVal(SubSeq(hex_4_str, 1, 2), 16, 0))
    ELSE Str(NumVal(SubSeq(hex_4_str, 3, 4), 16, 0))

\* the text returned for the result of eval; "0" after an exception
HighLowResult(symbol, result) ==
    IF ~result.ok THEN <<"0">>
    ELSE HexPart(symbol, Fmt04X(AndFFFF(IntRound(result.val))))

parse_high_low_hex(symbol, expr, dict) ==
    HighLowResult(symbol, PyEval(var_replace_sub(Upper(expr), 1, dict)))

\* re.sub(r'([#$])\(([^)]+)\)', parse_high_low_hex, text): # or $, an opening
\* parenthesis, one or more characters other than ')', and the first ')'
RECURSIVE high_low_sub(_, _, _)
high_low_sub(s, i, dict) ==
    IF i > Len(s) THEN <<>>
    ELSE LET j == RunEnd(s, i + 2, {s[k] : k \in 1..Len(s)} \ {")"}) IN
         IF /\ s[i] \in {"#", "$"}
            /\ i + 1 <= Len(s) /\ s[i + 1] = "("
            /\ j > i + 2 /\ j <= Len(s)
         THEN parse_high_low_hex(s[i], SubSeq(s, i + 2, j - 1), dict)
              \o high_low_sub(s, j + 1, dict)
         ELSE <<s[i]>> \o high_low_sub(s, i + 1, dict)

\* the result of eval returned without the mask to one byte
FormulaResult_nomask(result) ==
    IF ~result.ok THEN 0
    ELSE IF result.val.f THEN RoundHalfEven(result.val)
    ELSE result.val.n

\* int(round(result)) & 0xFF for a float, result & 0xFF for an int, 0 after
\* an exception
FormulaResult(result) ==
    IF ~result.ok THEN 0
    ELSE IF result.val.f THEN AndFF(RoundHalfEven(result.val))
    ELSE AndFF(result.val.n)

parse_b_formula(formula_text, dict) ==
    FormulaResult(PyEval(var_replace_sub(Upper(high_low_sub(formula_text, 1, dict)), 1, dict)))

\* the classification applied to the text as typed, without strip()
parse_b_input_nostrip(input_text, dict) ==
    IF Len(input_text) = 0 THEN 0
    ELSE IF \E i \in 1..Len(input_text) : input_text[i] \in {"+", "-", "*", "/", "#", "$"}
    THEN parse_b_formula(input_text, dict)
    ELSE IF Len(input_text) = 2
    THEN (IF input_text[1] \in HexDigitSet /\ input_text[2] \in HexDigitSet
          THEN AndFF(NumVal(input_text, 16, 0)) ELSE 0)
    ELSE get_var_value(input_text, dict)

parse_b_input(input_text, dict) ==
    LET text == Strip(input_text) IN
    IF Len(text) = 0 THEN 0
    ELSE IF \E i \in 1..Len(text) : text[i] \in {"+", "-", "*", "/", "#", "$"}
    THEN parse_b_formula(text, dict)
    ELSE IF Len(text) = 2
    THEN (IF text[1] \in HexDigitSet /\ text[2] \in HexDigitSet
          THEN AndFF(NumVal(text, 16, 0)) ELSE 0)
    ELSE get_var_value(text, dict)

\* ---------------------------------------------------------------- resolver
\* the rows of row_widgets, in iteration order
RowSeq(n) == [i \in 1..n |-> i]

\* the names "for row_num in self.row_widgets: for col in range(1, count + 1)"
\* visits, in order
RECURSIVE CellSeq(_, _, _)
CellSeq(prefix, rows, count) ==
    IF Len(rows) = 0 THEN <<>>
    ELSE [c \in 1..count |-> generate_var_name(prefix, rows[1], c)]
         \o CellSeq(prefix, Tail(rows), count)

\* int(raw_text) if raw_text.isdigit() else 0
DecValue(raw_text) == IF IsDigitText(raw_text) THEN NumVal(raw_text, 10, 0) ELSE 0

\* first step of update_all_var_values: every A cell of the grid is stored
RECURSIVE ResolveA(_, _, _)
ResolveA(cells, raw, store) ==
    IF Len(cells) = 0 THEN store
    ELSE ResolveA(Tail(cells), raw,
                  DictSet(store, cells[1], DecValue(DictGet(raw, cells[1], <<>>))))

\* one turn of the while loop: every B cell is evaluated against the store as
\* it is at that moment, and stored when its value differs from the old one
RECURSIVE ResolveRound(_, _, _, _), ResolveCell(_, _, _, _, _, _)
ResolveRound(cells, raw, store, changed) ==
    IF Len(cells) = 0 THEN [store |-> store, changed |-> changed]
    ELSE ResolveCell(cells, raw, store, changed, DictGet(store, cells[1], 0),
                     parse_b_input(DictGet(raw, cells[1], <<>>), store))

\* the body of the loop for the cell cells[1], then the cells after it
ResolveCell(cells, raw, store, changed, old_value, new_value) ==
    IF new_value # old_value
    THEN ResolveRound(Tail(cells), raw, DictSet(store, cells[1], new_value), TRUE)
    ELSE ResolveRound(Tail(cells), raw, store, changed)

\* the loop with one turn fewer than the cap allows
LoopCond_short(changed, attempt) == changed /\ attempt < max_attempts - 1

\* the loop that goes on to the cap whether or not a value changed
LoopCond_nochange(changed, attempt) == attempt < max_attempts

\* while has_value_change and current_attempt < max_attempts
LoopCond(changed, attempt) == changed /\ attempt < max_attempts

RECURSIVE ResolveLoop(_, _, _, _, _), ResolveTurn(_, _, _, _)
ResolveLoop(cells, raw, store, changed, attempt) ==
    IF LoopCond(changed, attempt)
    THEN ResolveTurn(cells, raw, ResolveRound(cells, raw, store, FALSE), attempt + 1)
    ELSE [store |-> store, changed |-> changed, attempt |-> attempt]

\* the loop goes on from what the turn r left
ResolveTurn(cells, raw, r, attempt) ==
    ResolveLoop(cells, raw, r.store, r.changed, attempt)

\* update_all_var_values: the store, has_value_change and current_attempt it ends with
update_all_var_values(raw, store, rows, dec_cols, hex_cols) ==
    ResolveLoop(CellSeq("B", rows, hex_cols), raw,
                ResolveA(CellSeq("A", rows, dec_cols), raw, store), TRUE, 0)

\* " ".join(list)
RECURSIVE Join(_)
Join(list) ==
    IF Len(list) = 0 THEN <<>>
    ELSE IF Len(list) = 1 THEN list[1]
    ELSE list[1] \o <<" ">> \o Join(Tail(list))

\* calc_single_row: the texts put in crc_input and result_input
\* the two texts of a row, from its bytes and the two bytes of their CRC
RowTexts(b_col_dec_values, crc) ==
    [crc |-> Fmt02X(crc[1]) \o Fmt02X(crc[2]),
     result |-> Join([c \in 1..Len(b_col_dec_values) |-> Fmt02X(b_col_dec_values[c])]
                     \o <<Fmt02X(crc[1]), Fmt02X(crc[2])>>)]

RowCrc(b_col_dec_values, order) ==
    RowTexts(b_col_dec_values,
             crc16_modbus(b_col_dec_values, IF order = "low_first" THEN "little" ELSE "big"))

calc_single_row(row_num, store, hex_cols, order) ==
    RowCrc([c \in 1..hex_cols |-> AndFF(DictGet(store, generate_var_name("B", row_num, c), 0))],
           order)

\* str.startswith
StartsWith(s, prefix) == Len(s) >= Len(prefix) /\ SubSeq(s, 1, Len(prefix)) = prefix

\* remove_calc_row: the keys of raw_text_dict that start with A<row> or B<row>
del_var_list(raw, row_num) ==
    {k \in DOMAIN raw : \/ StartsWith(k, <<"A">> \o Fmt02d(row_num))
                        \/ StartsWith(k, <<"B">> \o Fmt02d(row_num))}

\* the rows removed by on_row_count_change: range(old_count, new_count, -1)
RemovedRows(old_count, new_count) == {r \in 1..old_count : r > new_count}

RemovedKeys(raw, old_count, new_count) ==
    UNION {del_var_list(raw, r) : r \in RemovedRows(old_count, new_count)}

\* ----------------------------------------------------------------- texts
T_4000 == <<"4","0","0","0">>
T_refA0101 == <<"A","0","1","0","1">>
T_A0101minus == <<"A","0","1","0","1","-","0","X","F","F","*","2">>

\* texts typed into A cells and into B cells
DecTexts == {T_4000}
HexTexts == {T_refA0101, T_A0101minus}

\* no resolution pass has completed yet
NoPass == [done |-> FALSE, raw |-> <<>>, rows |-> 0, dec |-> 0, hex |-> 0,
           store |-> <<>>, outputs |-> <<>>]

\* ------------------------------------------------- CRC16MODBUSCalculator
crcVars == <<crc_data, crc_arg_order, crc_idx, crc_bit, crc_reg, crc_ret>>
evVars == <<ev_text, ev_dict, ev_result>>

\* the variables that only CrcSpec and EvalSpec move
IdleSide ==
    /\ crc_data = <<>> /\ crc_arg_order = "little" /\ crc_idx = 0 /\ crc_bit = 0 /\ crc_reg = CrcSeed /\ crc_ret = <<>>
    /\ ev_text = <<>> /\ ev_dict = <<>> /\ ev_result = 0

\* __init__ and init_main_ui: one row, no A column, six B columns, empty stores
Construction ==
    /\ total_rows = 1
    /\ dec_col_count = 0
    /\ hex_col_count = DefaultHexCols
    /\ crc_order = "low_first"
    /\ raw_text_dict = <<>>
    /\ var_value_dict = <<>>
    /\ row_widgets = RowSeq(1)
    /\ row_outputs = [r \in {1} |-> [crc |-> <<>>, result |-> <<>>]]
    /\ timer_active = FALSE
    /\ has_value_change = FALSE
    /\ current_attempt = 0
    /\ last_pass = NoPass
    /\ edits = 0

Init == Construction /\ pc = "idle" /\ IdleSide

\* calc_all_rows on the given stores and configuration: the timer is stopped,
\* the store is resolved and every row's outputs are recomputed
ShowRows(resolved, rows, hex_cols, order) ==
    /\ timer_active' = FALSE
    /\ var_value_dict' = resolved
    /\ row_outputs' = [row \in 1..rows |-> calc_single_row(row, resolved, hex_cols, order)]
    \* the locals of update_all_var_values are gone when the handler returns
    /\ UNCHANGED <<has_value_change, current_attempt, last_pass>>

CalcAllRows(raw, store, rows, dec_cols, hex_cols, order) ==
    ShowRows(update_all_var_values(raw, store, RowSeq(rows), dec_cols, hex_cols).store,
             rows, hex_cols, order)

Min(a, b) == IF a < b THEN a ELSE b

\* the cells that have an input box, with the texts typed into them
EditChoices ==
    {<<generate_var_name("A", r, c), t>> :
        r \in 1..total_rows, c \in 1..dec_col_count, t \in DecTexts}
    \cup
    {<<generate_var_name("B", r, c), t>> :
        r \in 1..total_rows, c \in 1..Min(hex_col_count, MaxHexCols), t \in HexTexts}

\* an edit that stores the text and leaves the timer as it is
UpdateRawText_nostart ==
    /\ pc = "idle"
    /\ edits < MaxEdits
    /\ \E ch \in EditChoices :
         /\ ch[2] # DictGet(raw_text_dict, ch[1], <<>>)
         /\ raw_text_dict' = DictSet(raw_text_dict, ch[1], Strip(ch[2]))
    /\ edits' = edits + 1
    /\ UNCHANGED <<total_rows, dec_col_count, hex_col_count, crc_order, var_value_dict,
                   row_widgets, row_outputs, has_value_change, current_attempt, pc,
                   last_pass, timer_active, crcVars, evVars>>

\* update_raw_text, called by textChanged of the cell's input box
UpdateRawText ==
    /\ pc = "idle"
    /\ edits < MaxEdits
    /\ \E ch \in EditChoices :
         /\ ch[2] # DictGet(raw_text_dict, ch[1], <<>>)
         /\ raw_text_dict' = DictSet(raw_text_dict, ch[1], Strip(ch[2]))
    /\ timer_active' = TRUE
    /\ edits' = edits + 1
    /\ UNCHANGED <<total_rows, dec_col_count, hex_col_count, crc_order, var_value_dict,
                   row_widgets, row_outputs, has_value_change, current_attempt, pc,
                   last_pass, crcVars, evVars>>

\* calc_timer.timeout -> calc_all_rows
TimerTimeout ==
    /\ pc = "idle"
    /\ timer_active
    /\ CalcAllRows(raw_text_dict, var_value_dict, total_rows, dec_col_count,
                   hex_col_count, crc_order)
    /\ UNCHANGED <<total_rows, dec_col_count, hex_col_count, crc_order, raw_text_dict,
                   row_widgets, pc, edits, crcVars, evVars>>

\* on_row_count_change: rows are added (add_calc_row: their input boxes are
\* filled from raw_text_dict, which leaves raw_text_dict as it is) or removed
\* (remove_calc_row), then calc_all_rows runs
OnRowCountChange ==
    /\ pc = "idle"
    /\ \E new_count \in 1..MaxRows :
         /\ new_count # total_rows
         /\ LET gone == RemovedKeys(raw_text_dict, total_rows, new_count)
                raw == DictDrop(raw_text_dict, gone)
            IN  /\ raw_text_dict' = raw
                /\ row_widgets' = RowSeq(new_count)
                /\ total_rows' = new_count
                /\ CalcAllRows(raw, DictDrop(var_value_dict, gone), new_count,
                               dec_col_count, hex_col_count, crc_order)
    /\ UNCHANGED <<dec_col_count, hex_col_count, crc_order, pc, edits, crcVars, evVars>>

\* on_dec_col_change: refresh_dec_inputs of every row, then calc_all_rows
OnDecColChange ==
    /\ pc = "idle"
    /\ \E value \in 0..MaxDecCols :
         /\ value # dec_col_count
         /\ dec_col_count' = value
         /\ CalcAllRows(raw_text_dict, var_value_dict, total_rows, value,
                        hex_col_count, crc_order)
    /\ UNCHANGED <<total_rows, hex_col_count, crc_order, raw_text_dict, row_widgets,
                   pc, edits, crcVars, evVars>>

\* on_hex_col_change: refresh_hex_inputs of every row, then calc_all_rows
OnHexColChange ==
    /\ pc = "idle"
    /\ \E value \in 1..MaxHexCols :
         /\ value # hex_col_count
         /\ hex_col_count' = value
         /\ CalcAllRows(raw_text_dict, var_value_dict, total_rows, dec_col_count,
                        value, crc_order)
    /\ UNCHANGED <<total_rows, dec_col_count, crc_order, raw_text_dict, row_widgets,
                   pc, edits, crcVars, evVars>>

\* on_crc_order_change
OnCrcOrderChange ==
    /\ pc = "idle"
    /\ \E value \in {"low_first", "high_first"} :
         /\ value # crc_order
         /\ crc_order' = value
         /\ CalcAllRows(raw_text_dict, var_value_dict, total_rows, dec_col_count,
                        hex_col_count, value)
    /\ UNCHANGED <<total_rows, dec_col_count, hex_col_count, raw_text_dict, row_widgets,
                   pc, edits, crcVars, evVars>>

Next ==
    \/ UpdateRawText
    \/ TimerTimeout
    \/ OnRowCountChange
    \/ OnDecColChange
    \/ OnHexColChange
    \/ OnCrcOrderChange

Spec == Init /\ [][Next]_vars

\* the running timer times out, or a handler that runs calc_all_rows stops it
TimerFires == timer_active /\ timer_active' = FALSE

\* a started QTimer times out once its interval has elapsed
LiveSpec == Init /\ [][Next]_vars /\ WF_<<timer_active>>(TimerFires)

\* ------------------------------------- the resolution pass, round by round
\* The shapes of ChainSpec: <<rows, B columns, cells in the chain>>; there is
\* no A column.  Five cells make a chain of depth 4, six fill the default row.
ChainShapes == {<<1, 5, 5>>, <<1, 6, 6>>, <<2, 3, 5>>}

\* the sequences of n distinct elements of S
Arrangements(S, n) ==
    {f \in [1..n -> S] : \A i, j \in 1..n : i # j => f[i] # f[j]}

\* raw texts of a reference chain: order[i] refers to order[i + 1], as a bare
\* reference or as the formula <name>+1, and the last cell holds the literal 01
ChainRaw(order, kind) ==
    [name \in {order[i] : i \in 1..Len(order)} |->
        LET i == CHOOSE k \in 1..Len(order) : order[k] = name IN
        IF i = Len(order) THEN <<"0","1">>
        ELSE IF kind = "ref" THEN order[i + 1]
        ELSE order[i + 1] \o <<"+","1">>]

\* a cell whose formula is its own name plus 1
CycleRaw == [name \in {generate_var_name("B", 1, 1)} |->
                generate_var_name("B", 1, 1) \o <<"+","1">>]

\* import_config with a file whose global_params are the current ones: the
\* raw texts are replaced, the store is cleared, the input boxes are filled
\* (which starts the timer), and calc_all_rows is about to run
ChainInit ==
    /\ \/ \E g \in ChainShapes, kind \in {"ref", "plus"} :
            /\ total_rows = g[1]
            /\ hex_col_count = g[2]
            /\ LET cells == CellSeq("B", RowSeq(g[1]), g[2]) IN
               \E order \in Arrangements({cells[i] : i \in 1..Len(cells)}, g[3]) :
                   raw_text_dict = ChainRaw(order, kind)
       \/ /\ total_rows = 1
          /\ hex_col_count = DefaultHexCols
          /\ raw_text_dict = CycleRaw
    /\ dec_col_count = 0
    /\ crc_order = "low_first"
    /\ var_value_dict = <<>>
    /\ row_widgets = RowSeq(total_rows)
    /\ row_outputs = [r \in 1..total_rows |-> [crc |-> <<>>, result |-> <<>>]]
    /\ timer_active = TRUE
    /\ has_value_change = FALSE
    /\ current_attempt = 0
    /\ pc = "idle"
    /\ last_pass = NoPass
    /\ edits = 0
    /\ IdleSide

gridVars == <<total_rows, dec_col_count, hex_col_count, crc_order, raw_text_dict,
              row_widgets, edits>>

\* calc_all_rows up to the while loop of update_all_var_values: the timer is
\* stopped, the A cells are stored, the loop variables are set
PassStart ==
    /\ pc = "idle"
    /\ timer_active' = FALSE
    /\ var_value_dict' = ResolveA(CellSeq("A", row_widgets, dec_col_count),
                                  raw_text_dict, var_value_dict)
    /\ has_value_change' = TRUE
    /\ current_attempt' = 0
    /\ pc' = "loop"
    /\ UNCHANGED <<gridVars, row_outputs, last_pass, crcVars, evVars>>

\* the condition of the while loop
LoopCondition == LoopCond(has_value_change, current_attempt)

\* one turn of the while loop
TurnLeaves(r) ==
    /\ var_value_dict' = r.store
    /\ has_value_change' = r.changed

PassRound ==
    /\ pc = "loop"
    /\ LoopCondition
    /\ TurnLeaves(ResolveRound(CellSeq("B", row_widgets, hex_col_count),
                               raw_text_dict, var_value_dict, FALSE))
    /\ current_attempt' = current_attempt + 1
    /\ UNCHANGED <<gridVars, row_outputs, timer_active, pc, last_pass, crcVars, evVars>>

\* the outputs calc_all_rows would write for the present store
RowOutputs ==
    [row \in 1..total_rows |->
        calc_single_row(row, var_value_dict, hex_col_count, crc_order)]

\* the loop is left and calc_all_rows goes through calc_single_row for each row
PassEnd ==
    /\ pc = "loop"
    /\ ~LoopCondition
    /\ row_outputs' = RowOutputs
    /\ last_pass' = [done |-> TRUE, raw |-> raw_text_dict, rows |-> total_rows,
                     dec |-> dec_col_count, hex |-> hex_col_count,
                     store |-> var_value_dict, outputs |-> row_outputs']
    /\ pc' = "idle"
    /\ UNCHANGED <<gridVars, var_value_dict, timer_active, has_value_change,
                   current_attempt, crcVars, evVars>>

ChainNext == PassStart \/ PassRound \/ PassEnd

ChainSpec == ChainInit /\ [][ChainNext]_vars

\* the default row with the self-referring cell, or filled with the chain in
\* which every cell refers to the cell after it
ChainLiveRaws ==
    {CycleRaw, ChainRaw(CellSeq("B", RowSeq(1), DefaultHexCols), "plus")}

ChainLiveInit == raw_text_dict \in ChainLiveRaws /\ ChainInit

\* a step of a pass that is in its loop: one more turn, or the loop is left
PassProgress ==
    /\ pc = "loop"
    /\ \/ pc' = "loop" /\ current_attempt' = current_attempt + 1
       \/ pc' = "idle" /\ current_attempt' = current_attempt

\* update_all_var_values and calc_all_rows are straight-line code of one
\* handler call: once a pass has started, its next turn or its end is taken
ChainLiveSpec ==
    ChainLiveInit /\ [][ChainNext]_vars /\ WF_<<pc, current_attempt>>(PassProgress)

\* ---------------------------------------------- crc16_modbus, step by step
CrcBytes == {0, 1, 3, 10, 255}

\* the request 01 03 00 00 00 0A
GoldenVector == <<1, 3, 0, 0, 0, 10>>

CrcInputs == UNION {[1..n -> CrcBytes] : n \in 0..MaxCrcLen} \cup {GoldenVector}

CrcInit ==
    /\ Construction
    /\ pc = "crc_byte"
    /\ crc_data \in CrcInputs
    /\ crc_arg_order \in {"little", "big"}
    /\ crc_idx = 1
    /\ crc_bit = 0
    /\ crc_reg = CrcSeed
    /\ crc_ret = <<>>
    /\ ev_text = <<>> /\ ev_dict = <<>> /\ ev_result = 0

mainVars == <<total_rows, dec_col_count, hex_col_count, crc_order, raw_text_dict,
              var_value_dict, row_widgets, row_outputs, timer_active,
              has_value_change, current_attempt, last_pass, edits>>

\* for byte in data: crc ^= byte & 0xFF
CrcStepByte ==
    /\ pc = "crc_byte"
    /\ crc_idx <= Len(crc_data)
    /\ crc_reg' = CrcXorByte(crc_reg, crc_data[crc_idx])
    /\ crc_bit' = 0
    /\ pc' = "crc_bits"
    /\ UNCHANGED <<mainVars, crc_data, crc_arg_order, crc_idx, crc_ret, evVars>>

\* for _ in range(8): one shift; after the eighth the next byte is taken
CrcStepBit ==
    /\ pc = "crc_bits"
    /\ crc_reg' = CrcShift(crc_reg)
    /\ crc_bit' = crc_bit + 1
    /\ IF crc_bit + 1 = 8
       THEN pc' = "crc_byte" /\ crc_idx' = crc_idx + 1
       ELSE pc' = "crc_bits" /\ crc_idx' = crc_idx
    /\ UNCHANGED <<mainVars, crc_data, crc_arg_order, crc_ret, evVars>>

\* crc &= 0xFFFF; return the two bytes
CrcStepReturn ==
    /\ pc = "crc_byte"
    /\ crc_idx > Len(crc_data)
    /\ crc_ret' = CrcReturn(crc_reg, crc_arg_order)
    /\ pc' = "crc_done"
    /\ UNCHANGED <<mainVars, crc_data, crc_arg_order, crc_idx, crc_bit, crc_reg, evVars>>

CrcNext == CrcStepByte \/ CrcStepBit \/ CrcStepReturn

CrcSpec == CrcInit /\ [][CrcNext]_vars

\* ------------------------------------------------ parse_b_input, applied
\* the texts given to parse_b_input in EvalSpec: abs(0-5), #((1+2)*256) and 2**3
E_abs == <<"a","b","s","(","0","-","5",")">>
E_highNested == <<"#","(","(","1","+","2",")","*","2","5","6",")">>
E_pow == <<"2","*","*","3">>

\* literals, references, formulas and malformed texts, in both letter cases
EvalTexts ==
    {E_abs, E_highNested, E_pow,
     <<>>,
     <<" "," ">>,
     <<"0","a">>,
     <<"F","F">>,
     <<"G","G">>,
     <<" ","F","F"," ">>,
     <<"A","0","1","0","1">>,
     <<"a","0","1","0","1">>,
     <<"B","0","1","0","6">>,
     <<"B","0","1","9","9">>,
     <<"B","0","1","0","6","+","0","X","F","F","*","2">>,
     <<"#","(","0","X","1","2","3","4",")">>,
     <<"$","(","0","X","1","2","3","4",")">>,
     <<"#","(","0","x","1","2","3","4",")">>,
     <<"A","B","S","(","0","-","5",")">>,
     <<"A","b","s","(","0","-","5",")">>,
     <<"r","o","u","n","d","(","7","/","2",")","+","0">>,
     <<"#","(","(","1","+","2",")","*","0","x","1","0","0",")">>,
     <<"$","(","a","b","s","(","0","-","5",")",")">>,
     <<"(","1","+","2",")","*","3">>,
     <<"7","/","/","2">>,
     <<"(","1","<","2",")","+","1">>,
     <<"F","O","O","+","1">>,
     <<"7","/","2">>,
     <<"5","/","2">>,
     <<"1","/","0">>,
     <<"-","1">>,
     <<"#","(","0","-","1",")">>,
     <<"$","(","0","-","2",")">>,
     <<"$","(","A","0","1","0","1","*","2",")">>,
     <<"#","(","A","0","1","0","1","*","2","5","6",")">>,
     <<"0","1","+","1">>,
     <<"5","+","1","#","(",")">>,
     <<"5","+","$">>,
     <<"#","(","1","/","0",")","+","5">>,
     <<"#","(","0","X","1","2","3","4",")","*","2","5","6","+","$","(","0","X","1","2","3","4",")">>,
     <<"0","X","A","0","1","0","1","+","0">>,
     <<"5">>,
     <<"A","B","C">>,
     <<"0","X","1","F">>,
     <<"7","f">>,
     <<"1"," ","2">>,
     <<" ","b","0","1","0","6"," ">>}

\* the stores given to parse_b_input in EvalSpec
EvalDicts ==
    {<<>>,
     [name \in {T_refA0101, generate_var_name("B", 1, 6)} |-> IF name = T_refA0101 THEN 20 ELSE 10],
     [name \in {T_refA0101, generate_var_name("B", 1, 6)} |-> IF name = T_refA0101 THEN 4000 ELSE 255]}

EvalInit ==
    /\ Construction
    /\ pc = "ev_call"
    /\ ev_text \in EvalTexts
    /\ ev_dict \in EvalDicts
    /\ ev_result = 0
    /\ crc_data = <<>> /\ crc_arg_order = "little" /\ crc_idx = 0 /\ crc_bit = 0
    /\ crc_reg = CrcSeed /\ crc_ret = <<>>

\* new_value = parse_b_input(raw_text, self.var_value_dict)
EvalCall ==
    /\ pc = "ev_call"
    /\ ev_result' = parse_b_input(ev_text, ev_dict)
    /\ pc' = "ev_done"
    /\ UNCHANGED <<mainVars, crcVars, ev_text, ev_dict>>

EvalNext == EvalCall

EvalSpec == EvalInit /\ [][EvalNext]_vars

\* =================================================================== claims
\* ---- reading a cell name back: class, row and column by fixed-width slices
NameRow(name) == NumVal(SubSeq(name, 2, 3), 10, 0)
NameCol(name) == NumVal(SubSeq(name, 4, 5), 10, 0)

\* the name's column exists under the present column counts
InColumns(name) ==
    IF name[1] = "A" THEN NameCol(name) <= dec_col_count
    ELSE NameCol(name) <= hex_col_count

\* the B cells of the present grid
GridBCells == {generate_var_name("B", r, c) : r \in 1..total_rows, c \in 1..hex_col_count}
GridACells == {generate_var_name("A", r, c) : r \in 1..total_rows, c \in 1..dec_col_count}

\* a handler has run calc_all_rows and no edit was made since
PostPass == ~timer_active /\ pc = "idle" /\ row_outputs[1].crc # <<>>

\* ---- CRC reference on bit vectors, least significant bit first
RefBits(n) == [i \in 1..16 |-> (n \div IntPow(2, i - 1)) % 2]
RefXor(a, b) == [i \in 1..16 |-> IF a[i] = b[i] THEN 0 ELSE 1]
RefShift(reg) ==
    LET shifted == [i \in 1..16 |-> IF i < 16 THEN reg[i + 1] ELSE 0] IN
    IF reg[1] = 1 THEN RefXor(shifted, RefBits(40961)) ELSE shifted
RefByte(reg, byte) ==
    RefShift(RefShift(RefShift(RefShift(RefShift(RefShift(RefShift(RefShift(
        RefXor(reg, RefBits(byte))))))))))
RECURSIVE RefCrc(_, _)
RefCrc(data, reg) ==
    IF Len(data) = 0 THEN reg ELSE RefCrc(Tail(data), RefByte(reg, data[1]))
RECURSIVE RefVal(_)
RefVal(bits) == IF Len(bits) = 0 THEN 0 ELSE bits[1] + 2 * RefVal(Tail(bits))
RefCrcBytes(data, order) ==
    LET reg == RefCrc(data, RefBits(65535))
        low == RefVal(SubSeq(reg, 1, 8))
        high == RefVal(SubSeq(reg, 9, 16))
    IN  IF order = "little" THEN <<low, high>> ELSE <<high, low>>

\* C1: for every byte sequence the bytes crc16_modbus returns are those of the
\* reference MODBUS CRC16 (seed 0xFFFF, byte XORed into the low 8 bits, eight
\* right shifts with XOR 0xA001 when the bit shifted out is 1); the empty
\* sequence gives FF FF and 01 03 00 00 00 0A gives C5 CD low byte first.
C1_CrcMatchesReference ==
    pc = "crc_done" =>
        /\ crc_ret = RefCrcBytes(crc_data, crc_arg_order)
        /\ (crc_data = <<>> => crc_ret = <<255, 255>>)
        /\ (crc_data = GoldenVector /\ crc_arg_order = "little" => crc_ret = <<197, 205>>)

C1_Witness ==
    /\ pc = "crc_done"
    /\ crc_data = GoldenVector
    /\ crc_arg_order = "little"
    /\ crc_ret = <<197, 205>>

\* C2: crc16_modbus returns exactly two values, each in 0..255; the low-first
\* result reversed is the high-first result for the same data; the register
\* stays in 0..0xFFFF at every step.
C2_TwoBytesEitherOrder ==
    /\ crc_reg \in 0..65535
    /\ pc = "crc_done" =>
         /\ Len(crc_ret) = 2
         /\ crc_ret[1] \in 0..255
         /\ crc_ret[2] \in 0..255
         /\ crc16_modbus(crc_data, IF crc_arg_order = "little" THEN "big" ELSE "little")
              = <<crc_ret[2], crc_ret[1]>>

C2_Witness ==
    /\ pc = "crc_done"
    /\ crc_arg_order = "big"
    /\ Len(crc_data) = MaxCrcLen
    /\ crc_ret[1] # crc_ret[2]

\* C3 as stated: every value held in var_value_dict, for A cells as well as
\* B cells, is an integer in 0..255.
C3_EveryStoredValueIsAByte ==
    \A name \in DOMAIN var_value_dict : var_value_dict[name] \in 0..255

\* C3 amended: every B value held in var_value_dict is in 0..255; an A value
\* is the non-negative integer its digits denote and may exceed 255; whatever
\* is held, get_var_value reads it as a value in 0..255.
C3_StoredValueRanges ==
    \A name \in DOMAIN var_value_dict :
        /\ name[1] = "B" => var_value_dict[name] \in 0..255
        /\ name[1] = "A" => var_value_dict[name] >= 0
        /\ get_var_value(name, var_value_dict) \in 0..255

C3_Witness ==
    /\ PostPass
    /\ \E a, b \in DOMAIN var_value_dict :
         /\ a[1] = "A" /\ var_value_dict[a] = 4000
         /\ b[1] = "B" /\ DictGet(raw_text_dict, b, <<>>) = T_A0101minus
         /\ var_value_dict[b] = 162

\* C4: after a column count was reduced, a formula or bare reference that
\* names a cell of a column now out of range reads 0 for it: every B cell of
\* the grid holds the value its text has when the out-of-range entries of the
\* store are absent.
C4_ShrunkColumnsReadZero ==
    PostPass =>
        LET kept == DictDrop(var_value_dict,
                             {k \in DOMAIN var_value_dict : ~InColumns(k)})
        IN  \A name \in GridBCells :
                DictGet(var_value_dict, name, 0)
                  = parse_b_input(DictGet(raw_text_dict, name, <<>>), kept)

\* C5: once the row count was reduced, no name of a removed row is a key of
\* var_value_dict or of raw_text_dict.
C5_RemovedRowsPruned ==
    \A name \in DOMAIN var_value_dict \cup DOMAIN raw_text_dict :
        NameRow(name) <= total_rows

\* ---- references between cells, read from the raw texts
\* the cell names a text refers to: every A or B followed by four digits
RefsOf(text) ==
    LET u == Upper(Strip(text)) IN
    {SubSeq(u, i, i + 4) : i \in {j \in 1..Len(u) :
        /\ u[j] \in {"A", "B"}
        /\ j + 4 <= Len(u)
        /\ \A k \in 1..4 : u[j + k] \in DigitSet}}

SetMax(S) == IF S = {} THEN 0 ELSE CHOOSE m \in S : \A x \in S : x <= m

\* links on the longest reference path that starts at name, cut off at fuel
RECURSIVE DepthOf(_, _, _)
DepthOf(raw, name, fuel) ==
    IF fuel = 0 \/ name \notin DOMAIN raw \/ RefsOf(raw[name]) = {} THEN 0
    ELSE 1 + SetMax({DepthOf(raw, r, fuel - 1) : r \in RefsOf(raw[name])})

\* no cell reaches itself: no path is longer than the number of cells allows
Acyclic(raw) ==
    \A name \in DOMAIN raw :
        DepthOf(raw, name, Cardinality(DOMAIN raw) + 1) < Cardinality(DOMAIN raw)

ChainDepth(raw) ==
    SetMax({DepthOf(raw, name, Cardinality(DOMAIN raw) + 1) : name \in DOMAIN raw})

\* the value of a cell by substitution in dependency order: the cells it
\* refers to are valued first and the text is evaluated on those values
RECURSIVE DirectValue(_, _, _)
DirectValue(raw, name, fuel) ==
    IF fuel = 0 \/ name \notin DOMAIN raw THEN 0
    ELSE IF name[1] = "A" THEN DecValue(raw[name])
    ELSE parse_b_input(raw[name],
                       [r \in RefsOf(raw[name]) |-> DirectValue(raw, r, fuel - 1)])

\* the while loop of a pass has just been left
PassLeavesLoop == pc = "loop" /\ ~LoopCondition

\* C6: for raw texts without a cyclic reference, a second resolution pass on
\* unchanged raw texts leaves var_value_dict and every row's CRC and final
\* output as the first pass left them.
C6_SecondPassChangesNothing ==
    (PassLeavesLoop /\ last_pass.done /\ last_pass.raw = raw_text_dict
        /\ Acyclic(raw_text_dict))
    => /\ var_value_dict = last_pass.store
       /\ RowOutputs = last_pass.outputs

\* C7: for an acyclic chain of depth 4 in any cell order, one pass from the
\* empty store leaves the loop within 5 rounds and every cell holds the value
\* obtained by substitution in dependency order.
C7_Depth4ChainResolved ==
    (PassLeavesLoop /\ ~last_pass.done /\ Acyclic(raw_text_dict)
        /\ ChainDepth(raw_text_dict) = 4)
    => /\ current_attempt <= 5
       /\ \A name \in GridBCells :
            DictGet(var_value_dict, name, 0) = DirectValue(raw_text_dict, name, 5)

\* an all-forward chain of formulas, resolved in the fifth round
C7_Witness ==
    /\ PassLeavesLoop /\ ~last_pass.done
    /\ ChainDepth(raw_text_dict) = 4
    /\ current_attempt = 5
    /\ DictGet(raw_text_dict, generate_var_name("B", 1, 1), <<>>)
         = generate_var_name("B", 1, 2) \o <<"+", "1">>
    /\ DictGet(var_value_dict, generate_var_name("B", 1, 1), 0) = 5

\* C8: the store a pass leaves depends on the raw texts and the row and column
\* counts only: it is the store the pass leaves when started from the empty
\* store (as after import_config), for every cell of the grid, and so are the
\* row outputs.
C8_StoreIsFunctionOfRawText ==
    PostPass =>
        LET fresh == update_all_var_values(raw_text_dict, <<>>, RowSeq(total_rows),
                                           dec_col_count, hex_col_count).store
        IN  /\ \A name \in GridACells \cup GridBCells :
                 DictGet(var_value_dict, name, 0) = DictGet(fresh, name, 0)
            /\ row_outputs = [row \in 1..total_rows |->
                                 calc_single_row(row, fresh, hex_col_count, crc_order)]

\* ---- constructs of a formula text
IsFormulaText(text) ==
    \E i \in 1..Len(text) : text[i] \in {"+", "-", "*", "/", "#", "$"}

CellShaped(s) ==
    Len(s) = 5 /\ s[1] \in {"A", "B"} /\ \A k \in 2..5 : s[k] \in DigitSet

\* the text uses something else than literals, + - * /, parentheses, cell
\* names, abs and round
UsesOtherConstruct(text) ==
    LET ts == Tokenize(Upper(Strip(text)), 1) IN
    \E i \in 1..Len(ts) :
        \/ ts[i].k \in {"**", "//", "<", ">"}
        \/ /\ ts[i].k = "name"
           /\ ~CellShaped(ts[i].s)
           /\ ts[i].s \notin {Upper(f) : f \in allowed_funcs}

\* C9: a formula text that uses a construct other than numeric literals, the
\* four operators, parentheses, abs and round resolves to 0.
C9_OtherConstructsGiveZero ==
    (pc = "ev_done" /\ IsFormulaText(ev_text) /\ UsesOtherConstruct(ev_text))
    => ev_result = 0

\* C10: abs and round are available in whatever letter case, and parentheses
\* group inside #(...): abs(0-5) resolves to 5 and #((1+2)*256) to 3.
C10_AbsAndNestedParentheses ==
    pc = "ev_done" =>
        /\ Upper(ev_text) = Upper(E_abs) => ev_result = 5
        /\ Upper(ev_text) = Upper(E_highNested) => ev_result = 3

\* ---- the classes of a text without + - * / # $
\* the byte two hexadecimal digits denote, by the digit's place in 0..9 A..F
HexDigitPlace(c) ==
    CASE c \in {"0"} -> 0 [] c \in {"1"} -> 1 [] c \in {"2"} -> 2 [] c \in {"3"} -> 3
      [] c \in {"4"} -> 4 [] c \in {"5"} -> 5 [] c \in {"6"} -> 6 [] c \in {"7"} -> 7
      [] c \in {"8"} -> 8 [] c \in {"9"} -> 9
      [] c \in {"A", "a"} -> 10 [] c \in {"B", "b"} -> 11 [] c \in {"C", "c"} -> 12
      [] c \in {"D", "d"} -> 13 [] c \in {"E", "e"} -> 14 [] c \in {"F", "f"} -> 15
      [] OTHER -> -1

\* the text between its leading and trailing blanks
Trimmed(text) ==
    LET inked == {i \in 1..Len(text) : text[i] # " "} IN
    IF inked = {} THEN <<>>
    ELSE SubSeq(text, CHOOSE i \in inked : \A j \in inked : i <= j,
                      CHOOSE i \in inked : \A j \in inked : i >= j)

\* the value the classes give a text without an operator
ClassValue(text, dict) ==
    LET t == Trimmed(text) IN
    IF Len(t) = 0 THEN 0
    ELSE IF Len(t) = 2
    THEN (IF HexDigitPlace(t[1]) >= 0 /\ HexDigitPlace(t[2]) >= 0
          THEN 16 * HexDigitPlace(t[1]) + HexDigitPlace(t[2]) ELSE 0)
    ELSE IF Upper(t) \in DOMAIN dict THEN dict[Upper(t)] % 256
    ELSE 0

\* C11: for a text with none of + - * / # $, parse_b_input gives 0 for an
\* empty or blank text, the byte for two hexadecimal digits in either case
\* ("0a" 10, "FF" 255), 0 for two other characters ("GG"), and for any other
\* text the stored value of the cell of that name masked to 0..255, or 0 when
\* the store has no such name ("A0101" gives 20 when the store holds what the
\* raw text "20" resolves to, 0 when it holds nothing).
C11_PlainTextClasses ==
    (pc = "ev_done" /\ ~IsFormulaText(ev_text)) =>
        /\ ev_result = ClassValue(ev_text, ev_dict)
        /\ ev_result \in 0..255
        /\ ev_text = <<"0","a">> => ev_result = 10
        /\ ev_text = <<"F","F">> => ev_result = 255
        /\ ev_text = <<"G","G">> => ev_result = 0
        /\ (ev_text = T_refA0101 /\ DictGet(ev_dict, T_refA0101, -1) = DecValue(<<"2","0">>))
              => ev_result = 20
        /\ (ev_text = T_refA0101 /\ T_refA0101 \notin DOMAIN ev_dict) => ev_result = 0

\* a reference typed in lower case between blanks reads a stored 255
C11_Witness ==
    /\ pc = "ev_done"
    /\ ev_text = <<" ","b","0","1","0","6"," ">>
    /\ DictGet(ev_dict, generate_var_name("B", 1, 6), 0) = 255
    /\ ev_result = 255

\* ---- a text that is one #(...) or $(...) around an inner expression
IsHighLowText(text) ==
    /\ Len(text) >= 4
    /\ text[1] \in {"#", "$"}
    /\ text[2] = "("
    /\ text[Len(text)] = ")"

InnerExpr(text) == SubSeq(text, 3, Len(text) - 1)

\* the value of the inner expression, each cell reference read as the stored
\* value masked to 0..255
InnerValue(text, dict) == PyEval(var_replace_sub(Upper(InnerExpr(text)), 1, dict))

\* C12: for an inner expression whose value rounds to the integer v, #(expr)
\* is bits 15..8 and $(expr) bits 7..0 of v mod 65536, negative v included:
\* each is in 0..255 and #(expr)*256 + $(expr) = v mod 65536; #(0X1234) is 18
\* and $(0X1234) is 52.
C12_HighLowBytes ==
    (pc = "ev_done" /\ IsHighLowText(ev_text) /\ InnerValue(ev_text, ev_dict).ok) =>
        LET v == IntRound(InnerValue(ev_text, ev_dict).val)
            rest == SubSeq(ev_text, 2, Len(ev_text))
        IN  /\ ev_result \in 0..255
            /\ ev_result = IF ev_text[1] = "#" THEN (v % 65536) \div 256 ELSE v % 256
            /\ parse_b_input(<<"#">> \o rest, ev_dict) * 256
                 + parse_b_input(<<"$">> \o rest, ev_dict) = v % 65536
            /\ ev_text = <<"#","(","0","X","1","2","3","4",")">> => ev_result = 18
            /\ ev_text = <<"$","(","0","X","1","2","3","4",")">> => ev_result = 52

\* C13: every resolution pass ends, cyclic references included: the loop of
\* the B cells never runs more than 5 rounds, a round is run only when fewer
\* than 5 have run and the round before it changed a value (the first round
\* always runs), after a round that changed nothing the pass leaves the
\* loop, and a pass that has entered the loop reaches its end.
C13_PassTerminates ==
    /\ [](current_attempt \in 0..5)
    /\ [][(pc = "loop" /\ current_attempt' # current_attempt)
            => /\ current_attempt < 5
               /\ current_attempt' = current_attempt + 1
               /\ (current_attempt > 0 => has_value_change)]_vars
    /\ [][(pc = "loop" /\ ~has_value_change) => pc' = "idle"]_vars
    /\ (pc = "loop" ~> pc = "idle")

\* the self-referring cell after the fifth round: its value has changed in
\* every round and the cap ends the loop
C13_Witness ==
    /\ raw_text_dict = CycleRaw
    /\ pc = "loop"
    /\ current_attempt = 5
    /\ has_value_change
    /\ ~LoopCondition

\* no text was typed into A0101 and no value is stored for it
A0101Unset ==
    /\ T_refA0101 \notin DOMAIN raw_text_dict
    /\ T_refA0101 \notin DOMAIN var_value_dict

====
